---------------------------- MODULE Spec2Model ----------------------------
(***************************************************************************)
(* Model of src/src/h256.rs: H256, a 256-bit value stored as [u8; 32] and  *)
(* read as a path in a sparse Merkle tree.  The operations of impl H256    *)
(* and of impl Ord are operators over byte arrays; the actions apply them  *)
(* to the values held in a, b, c and record what they return.              *)
(***************************************************************************)
EXTENDS Integers, FiniteSets, Sequences, TLC

VARIABLES
    a,      \* self: the H256 the methods are called on
    b,      \* the other H256 (key of fork_height, other of cmp)
    c,      \* a third H256, compared with a and b only
    n,      \* number of set_bit / clear_bit calls on a since it was built
    op,     \* the last operation applied
    arg,    \* its u8 argument (0 when it has none)
    pre,    \* self before the operation
    res,    \* the H256 it returned (ZERO when it returns none)
    flag,   \* the bool it returned
    num,    \* the u8 it returned
    ord,    \* the Ordering it returned
    ok      \* it completed without a panic (index, overflow, shift)

vars == <<a, b, c, n, op, arg, pre, res, flag, num, ord, ok>>

---------------------------------------------------------------------------
(* Program constants *)

BYTE_SIZE == 8
NBYTES == 32
U8_BITS == 8
I32_BITS == 32
U8_MAX == 255

Bytes == 0..(NBYTES - 1)
U8 == 0..U8_MAX

(* Bounds of the model *)

NumIdx == 10    \* how many sample indices the single-value operations take
PathIdx == 8    \* how many sample indices build the pairs (a, b)
OrdIdx == 4     \* how many sample indices build the triples (a, b, c)
MaxBits == 2    \* most bits set in a sampled input value
MaxMut == 2     \* most set_bit / clear_bit calls on one value

(* Sample bit indices, most telling first: both ends, byte boundaries,     *)
(* neighbours inside one byte, the middle.                                 *)
IdxSeq ==
    <<0, 255, 7, 8, 1, 248, 9, 3, 254, 247, 128, 127, 15, 16, 2, 5, 100, 200>>

Min(x, y) == IF x < y THEN x ELSE y

Idx(k) == {IdxSeq[j] : j \in 1..Min(k, Len(IdxSeq))}

---------------------------------------------------------------------------
(* u8 arithmetic *)

Shr(x, k) == x \div (2 ^ k)

Shl8(x, k) == (x * (2 ^ k)) % (U8_MAX + 1)

Not8(x) == U8_MAX - x

RECURSIVE BitAnd(_, _)
BitAnd(x, y) ==
    IF x = 0 \/ y = 0 THEN 0
    ELSE (x % 2) * (y % 2) + 2 * BitAnd(x \div 2, y \div 2)

RECURSIVE BitOr(_, _)
BitOr(x, y) ==
    IF x = 0 THEN y
    ELSE IF y = 0 THEN x
    ELSE (IF x % 2 = 1 \/ y % 2 = 1 THEN 1 ELSE 0)
         + 2 * BitOr(x \div 2, y \div 2)

---------------------------------------------------------------------------
(* impl H256 *)

ZERO == [k \in Bytes |-> 0]

zero == ZERO

is_zero_first_byte(v) == v[0] = 0

is_zero(v) == v = ZERO

get_bit(v, i) ==
    LET byte_pos == i \div BYTE_SIZE
        bit_pos == i % BYTE_SIZE
        bit == BitAnd(Shr(v[byte_pos], bit_pos), 1)
    IN  bit # 0

get_bit_ok(i) ==
    LET byte_pos == i \div BYTE_SIZE
        bit_pos == i % BYTE_SIZE
    IN  byte_pos \in Bytes /\ bit_pos < U8_BITS

set_bit_assign(v, i) ==
    LET byte_pos == i \div BYTE_SIZE
        bit_pos == i % BYTE_SIZE
    IN  [v EXCEPT ![byte_pos] = Shl8(1, bit_pos)]

set_bit(v, i) ==
    LET byte_pos == i \div BYTE_SIZE
        bit_pos == i % BYTE_SIZE
    IN  [v EXCEPT ![byte_pos] = BitOr(@, Shl8(1, bit_pos))]

set_bit_ok(i) ==
    LET byte_pos == i \div BYTE_SIZE
        bit_pos == i % BYTE_SIZE
    IN  byte_pos \in Bytes /\ bit_pos < U8_BITS

clear_bit_ok(i) ==
    LET byte_pos == i \div BYTE_SIZE
        bit_pos == i % BYTE_SIZE
    IN  byte_pos \in Bytes /\ bit_pos < I32_BITS

clear_bit(v, i) ==
    LET byte_pos == i \div BYTE_SIZE
        bit_pos == i % BYTE_SIZE
    IN  [v EXCEPT ![byte_pos] = BitAnd(@, Not8((2 ^ bit_pos) % (U8_MAX + 1)))]

is_right(v, height) == get_bit(v, height)

is_right_ok(height) == get_bit_ok(height)

as_slice(v) == [k \in 1..NBYTES |-> v[k - 1]]

(* fork_height: for h in (0..=u8::MAX).rev() { if differ { return h } } 0  *)
(* The loop over lo..=hi, taken from hi down to lo, returns the first h it  *)
(* meets with differing bits, or falls through (NoReturn).  The range is    *)
(* walked in halves, upper half first, which visits the same h in the same  *)
(* order as the loop.                                                       *)

NoReturn == -1

RECURSIVE ForkScanUp(_, _, _, _)
ForkScanUp(x, key, lo, hi) ==
    IF lo = hi
    THEN IF get_bit(x, lo) # get_bit(key, lo) THEN lo ELSE NoReturn
    ELSE LET mid == (lo + hi) \div 2
             first == ForkScanUp(x, key, lo, mid)
         IN  IF first # NoReturn THEN first ELSE ForkScanUp(x, key, mid + 1, hi)

RECURSIVE ForkScan(_, _, _, _)
ForkScan(x, key, lo, hi) ==
    IF lo = hi
    THEN IF get_bit(x, lo) # get_bit(key, lo) THEN lo ELSE NoReturn
    ELSE LET mid == (lo + hi) \div 2
             first == ForkScan(x, key, mid + 1, hi)
         IN  IF first # NoReturn THEN first ELSE ForkScan(x, key, lo, mid)

fork_height_no_rev(x, key) ==
    LET h == ForkScanUp(x, key, 0, U8_MAX)
    IN  IF h # NoReturn THEN h ELSE 0

fork_height(x, key) ==
    LET h == ForkScan(x, key, 0, U8_MAX)
    IN  IF h # NoReturn THEN h ELSE 0

fork_height_ok == \A h \in U8 : get_bit_ok(h)

(* copy_bits *)

copy_bits_no_mask(v, start) ==
    LET start_byte == start \div BYTE_SIZE
    IN  [k \in Bytes |-> IF k >= start_byte THEN v[k] ELSE 0]

copy_bits(v, start) ==
    LET start_byte == start \div BYTE_SIZE
        target == [k \in Bytes |-> IF k >= start_byte THEN v[k] ELSE 0]
        remain == start % BYTE_SIZE
    IN  IF remain > 0
        THEN [target EXCEPT ![start_byte] = BitAnd(@, Shl8(U8_MAX, remain))]
        ELSE target

copy_bits_ok(start) ==
    LET start_byte == start \div BYTE_SIZE
        remain == start % BYTE_SIZE
    IN  /\ start \in U8
        /\ start_byte <= NBYTES
        /\ remain > 0 => (start_byte \in Bytes /\ remain < U8_BITS)

(* parent_path *)

parent_path_same_height(v, height) ==
    IF height = U8_MAX THEN zero ELSE copy_bits(v, height)

parent_path(v, height) ==
    IF height = U8_MAX THEN zero ELSE copy_bits(v, height + 1)

parent_path_ok_no_max(height) ==
    height + 1 <= U8_MAX /\ copy_bits_ok((height + 1) % (U8_MAX + 1))

parent_path_ok(height) ==
    IF height = U8_MAX THEN TRUE
    ELSE height + 1 <= U8_MAX /\ copy_bits_ok(height + 1)

---------------------------------------------------------------------------
(* derive(PartialEq), impl PartialOrd, impl Ord *)

eq(x, y) == \A k \in Bytes : x[k] = y[k]

(* Iterator::cmp over self.0.iter().rev(): position k of the reversed       *)
(* iteration is byte NBYTES - 1 - k; both sides have NBYTES elements.       *)
RECURSIVE IterCmp(_, _, _)
IterCmp(x, y, k) ==
    IF k = NBYTES THEN "Equal"
    ELSE IF x[k] < y[k] THEN "Less"
    ELSE IF x[k] > y[k] THEN "Greater"
    ELSE IterCmp(x, y, k + 1)

RECURSIVE IterRevCmp(_, _, _)
IterRevCmp(x, y, k) ==
    IF k = NBYTES THEN "Equal"
    ELSE LET e == NBYTES - 1 - k
         IN  IF x[e] < y[e] THEN "Less"
             ELSE IF x[e] > y[e] THEN "Greater"
             ELSE IterRevCmp(x, y, k + 1)

cmp_no_rev(x, y) == IterCmp(x, y, 0)

cmp(x, y) == IterRevCmp(x, y, 0)

partial_cmp(x, y) == cmp(x, y)

lt(x, y) == partial_cmp(x, y) = "Less"

gt(x, y) == partial_cmp(x, y) = "Greater"

---------------------------------------------------------------------------
(* impl From<[u8; 32]> for H256: the input values *)

from(h) == h

ONES == [k \in Bytes |-> U8_MAX]

(* The byte array whose set bits are exactly S *)
BitsOf(S) ==
    [k \in Bytes |->
        LET RECURSIVE Sum(_)
            Sum(j) == IF j = BYTE_SIZE THEN 0
                      ELSE (IF (k * BYTE_SIZE + j) \in S THEN 2 ^ j ELSE 0)
                           + Sum(j + 1)
        IN  Sum(0)]

Arrays(I, m) == {BitsOf(S) : S \in {T \in SUBSET I : Cardinality(T) <= m}}

(* all clear, all set, and bits 0, 1, 2, 5, 7, 8: a byte with gaps and a  *)
(* run across the boundary of bytes 0 and 1                                *)
BitsArrays == {ZERO, ONES, BitsOf({0, 1, 2, 5, 7, 8})}
PathArrays == Arrays(Idx(PathIdx), MaxBits)
OrdArrays == Arrays(Idx(OrdIdx), MaxBits)

---------------------------------------------------------------------------
(* Operations *)

Record(o, i, p, r, f, m, d, k) ==
    /\ op' = o
    /\ arg' = i
    /\ pre' = p
    /\ res' = r
    /\ flag' = f
    /\ num' = m
    /\ ord' = d
    /\ ok' = k

NoResult ==
    /\ op = "new"
    /\ arg = 0
    /\ pre = ZERO
    /\ res = ZERO
    /\ flag = FALSE
    /\ num = 0
    /\ ord = "Equal"
    /\ ok = TRUE

From(h) ==
    /\ a' = from(h)
    /\ n' = 0
    /\ Record("from", 0, a, ZERO, FALSE, 0, "Equal", TRUE)
    /\ UNCHANGED <<b, c>>

SetBit(i) ==
    /\ n < MaxMut
    /\ a' = set_bit(a, i)
    /\ n' = n + 1
    /\ Record("set_bit", i, a, ZERO, FALSE, 0, "Equal", set_bit_ok(i))
    /\ UNCHANGED <<b, c>>

ClearBit(i) ==
    /\ n < MaxMut
    /\ a' = clear_bit(a, i)
    /\ n' = n + 1
    /\ Record("clear_bit", i, a, ZERO, FALSE, 0, "Equal", clear_bit_ok(i))
    /\ UNCHANGED <<b, c>>

GetBit(i) ==
    /\ Record("get_bit", i, a, ZERO, get_bit(a, i), 0, "Equal", get_bit_ok(i))
    /\ UNCHANGED <<a, b, c, n>>

IsRight(i) ==
    /\ Record("is_right", i, a, ZERO, is_right(a, i), 0, "Equal", is_right_ok(i))
    /\ UNCHANGED <<a, b, c, n>>

IsZero ==
    /\ Record("is_zero", 0, a, ZERO, is_zero(a), 0, "Equal", TRUE)
    /\ UNCHANGED <<a, b, c, n>>

CopyBits(i) ==
    /\ Record("copy_bits", i, a, copy_bits(a, i), FALSE, 0, "Equal", copy_bits_ok(i))
    /\ UNCHANGED <<a, b, c, n>>

ParentPath(i) ==
    /\ Record("parent_path", i, a, parent_path(a, i), FALSE, 0, "Equal",
              parent_path_ok(i))
    /\ UNCHANGED <<a, b, c, n>>

ForkHeight ==
    /\ Record("fork_height", 0, a, ZERO, FALSE, fork_height(a, b), "Equal",
              fork_height_ok)
    /\ UNCHANGED <<a, b, c, n>>

Cmp ==
    /\ Record("cmp", 0, a, ZERO, FALSE, 0, cmp(a, b), TRUE)
    /\ UNCHANGED <<a, b, c, n>>

---------------------------------------------------------------------------
(* Specifications *)

(* One value, built by zero() or from(), changed by set_bit / clear_bit     *)
InitBits ==
    /\ a = zero
    /\ b = zero
    /\ c = ZERO
    /\ n = 0
    /\ NoResult

NextBits ==
    \/ \E h \in BitsArrays : From(h)
    \/ \E i \in Idx(NumIdx) : SetBit(i)
    \/ \E i \in Idx(NumIdx) : ClearBit(i)
    \/ \E i \in Idx(NumIdx) : GetBit(i)
    \/ \E i \in Idx(NumIdx) : IsRight(i)
    \/ IsZero
    \/ \E i \in Idx(NumIdx) : CopyBits(i)
    \/ \E i \in Idx(NumIdx) : ParentPath(i)
    \/ ForkHeight

SpecBits == InitBits /\ [][NextBits]_vars

(* Two values: the paths fork_height and cmp relate *)
InitPath ==
    /\ a \in PathArrays
    /\ b \in PathArrays
    /\ c = ZERO
    /\ n = 0
    /\ NoResult

NextPath ==
    \/ ForkHeight
    \/ Cmp

SpecPath == InitPath /\ [][NextPath]_vars

(* Three values: the order *)
InitOrd ==
    /\ a \in OrdArrays
    /\ b \in OrdArrays
    /\ c \in OrdArrays
    /\ n = 0
    /\ NoResult

SpecOrd == InitOrd /\ [][NextPath]_vars

---------------------------------------------------------------------------
(* Properties *)

(* The positions at which x and y differ *)
Diff(x, y) == {h \in U8 : get_bit(x, h) # get_bit(y, h)}

Highest(D) == CHOOSE h \in D : \A g \in D : g <= h

(* Unsigned comparison of the 256-bit integers with byte 0 least            *)
(* significant: x < y exactly when the subtraction x - y, carried out byte  *)
(* by byte from byte 0 up, borrows out of byte 31.                          *)
RECURSIVE BorrowOut(_, _, _)
BorrowOut(x, y, k) ==
    IF k < 0 THEN 0
    ELSE IF x[k] - BorrowOut(x, y, k - 1) < y[k] THEN 1 ELSE 0

NumLess(x, y) == BorrowOut(x, y, NBYTES - 1) = 1

(* C1: after set_bit(i) on v, get_bit(j) is true for j = i and equals       *)
(* v.get_bit(j) for every other j; after clear_bit(i) on v, get_bit(j) is   *)
(* false for j = i and equals v.get_bit(j) for every other j.               *)
C1_SetClearFrame ==
    /\ op = "set_bit" =>
          \A j \in U8 : get_bit(a, j) = (IF j = arg THEN TRUE ELSE get_bit(pre, j))
    /\ op = "clear_bit" =>
          \A j \in U8 : get_bit(a, j) = (IF j = arg THEN FALSE ELSE get_bit(pre, j))

(* clear_bit cleared a bit that was set, in a byte holding another set bit, *)
(* of a value an earlier set_bit or clear_bit had already changed.          *)
C1_Witness ==
    /\ op = "clear_bit"
    /\ n = 2
    /\ get_bit(pre, arg)
    /\ \E j \in U8 : j # arg /\ j \div BYTE_SIZE = arg \div BYTE_SIZE /\ get_bit(pre, j)
    /\ ~get_bit(a, arg)

(* C2: a.fork_height(b) is the largest h in 0..=255 at which the bits of a  *)
(* and b differ, and 0 when a and b are identical.                          *)
C2_ForkHeightHighestDiff ==
    op = "fork_height" =>
        /\ Diff(a, b) # {} => num = Highest(Diff(a, b))
        /\ Diff(a, b) = {} => num = 0
        /\ a = b => num = 0

(* fork_height returned a position above 0 with a lower differing position  *)
(* below it.                                                                *)
C2_Witness ==
    /\ op = "fork_height"
    /\ num > 0
    /\ \E g \in U8 : g < num /\ g \in Diff(a, b)
    /\ \E g \in U8 : g > num /\ get_bit(a, g)

(* C3: v.copy_bits(start).get_bit(i) equals v.get_bit(i) for i >= start and *)
(* is false for i < start, on a byte boundary and inside a byte.            *)
C3_CopyBitsKeepsFromStart ==
    op = "copy_bits" =>
        \A i \in U8 : get_bit(res, i) = (IF i >= arg THEN get_bit(pre, i) ELSE FALSE)

(* copy_bits started inside a byte that had set bits on both sides of start *)
C3_Witness ==
    /\ op = "copy_bits"
    /\ arg % BYTE_SIZE # 0
    /\ \E i \in U8 : i < arg /\ i \div BYTE_SIZE = arg \div BYTE_SIZE /\ get_bit(pre, i)
    /\ \E i \in U8 : i >= arg /\ i \div BYTE_SIZE = arg \div BYTE_SIZE /\ get_bit(pre, i)
    /\ res # pre
    /\ res # ZERO

(* C4: v.parent_path(height) has every bit at a position <= height cleared  *)
(* and every bit above height equal to that of v; v.parent_path(255) is the *)
(* zero constant.                                                           *)
C4_ParentPathClearsUpToHeight ==
    op = "parent_path" =>
        /\ \A i \in U8 : get_bit(res, i) = (IF i > arg THEN get_bit(pre, i) ELSE FALSE)
        /\ arg = U8_MAX => res = zero

(* parent_path cleared the set bit at height and kept the set bit above it  *)
C4_Witness ==
    /\ op = "parent_path"
    /\ arg < U8_MAX
    /\ get_bit(pre, arg)
    /\ get_bit(pre, arg + 1)
    /\ ~get_bit(res, arg)
    /\ get_bit(res, arg + 1)

(* C5: the order is a strict total order consistent with equality: exactly  *)
(* one of a < b, a == b, a > b holds, < is transitive, and a < b holds      *)
(* exactly when the 256-bit unsigned integer of a (byte 31 most             *)
(* significant) is smaller than that of b.                                  *)
C5_OrderIsNumericTotal ==
    /\ op = "cmp" =>
          /\ ord = "Less" <=> NumLess(a, b)
          /\ ord = "Greater" <=> NumLess(b, a)
          /\ ord = "Equal" <=> eq(a, b)
    /\ \/ lt(a, b) /\ ~eq(a, b) /\ ~gt(a, b)
       \/ ~lt(a, b) /\ eq(a, b) /\ ~gt(a, b)
       \/ ~lt(a, b) /\ ~eq(a, b) /\ gt(a, b)
    /\ gt(a, b) <=> lt(b, a)
    /\ lt(a, b) /\ lt(b, c) => lt(a, c)

(* cmp found a < b although the lowest byte of a is the larger one, and     *)
(* b < c: a chain of three.                                                 *)
C5_Witness ==
    /\ op = "cmp"
    /\ ord = "Less"
    /\ a[0] > b[0]
    /\ lt(b, c)
    /\ lt(a, c)

(* C6: no operation fails: no byte index outside 0..=31, no u8 overflow in  *)
(* height + 1, no shift by the width of the shifted type or more.           *)
C6_NoOperationFails ==
    /\ ok
    /\ op \in {"get_bit", "set_bit", "clear_bit", "is_right"} =>
          /\ arg \div BYTE_SIZE \in Bytes
          /\ arg % BYTE_SIZE < U8_BITS
    /\ \A i \in U8 :
          /\ get_bit_ok(i)
          /\ set_bit_ok(i)
          /\ clear_bit_ok(i)
          /\ is_right_ok(i)
          /\ copy_bits_ok(i)
          /\ parent_path_ok(i)
    /\ fork_height_ok

(* parent_path was called with the largest height and completed             *)
C6_Witness ==
    /\ op = "parent_path"
    /\ arg = U8_MAX
    /\ pre # ZERO
    /\ ok

(* C7: zero().is_zero() is true; v.is_zero() is true exactly when v equals  *)
(* the zero constant, which is exactly when get_bit(i) is false for all i.  *)
C7_IsZeroIffNoBit ==
    /\ is_zero(zero)
    /\ op = "is_zero" =>
          /\ flag <=> pre = zero
          /\ flag <=> \A i \in U8 : ~get_bit(pre, i)

(* is_zero answered false for a value whose lowest byte is 0                *)
C7_Witness ==
    /\ op = "is_zero"
    /\ ~flag
    /\ pre[0] = 0
    /\ \E i \in U8 : get_bit(pre, i)

(* The number of common bits of x and y counted from position 255 down      *)
CommonBits(x, y) ==
    IF Diff(x, y) = {} THEN U8_MAX + 1 ELSE U8_MAX - Highest(Diff(x, y))

(* C8: a.fork_height(b) is the number of common bits of a and b counted     *)
(* from the higher positions to the lower ones (255 down to 0).             *)
C8_ForkHeightIsCommonBits ==
    op = "fork_height" => num = CommonBits(a, b)

(* C9: with h = a.fork_height(b): b.fork_height(a) = h, a.parent_path(h)    *)
(* equals b.parent_path(h), and when a != b and h > 0 the parent paths at   *)
(* h - 1 differ.                                                            *)
C9_ForkHeightCommonAncestor ==
    op = "fork_height" =>
        /\ fork_height(b, a) = num
        /\ parent_path(a, num) = parent_path(b, num)
        /\ (a # b /\ num > 0) => parent_path(a, num - 1) # parent_path(b, num - 1)

(* fork_height found a fork above 0 below a common ancestor that is not 0   *)
C9_Witness ==
    /\ op = "fork_height"
    /\ a # b
    /\ num > 0
    /\ parent_path(a, num) # ZERO
    /\ parent_path(a, num) = parent_path(b, num)

(* C10: for a != b with h = a.fork_height(b), a < b holds exactly when      *)
(* b.get_bit(h) is true and a.get_bit(h) is false.                          *)
C10_OrderAgreesWithForkBit ==
    (op = "cmp" /\ a # b) =>
        LET h == fork_height(a, b)
        IN  ord = "Less" <=> (get_bit(b, h) /\ ~get_bit(a, h))

(* cmp found a < b where a and b fork inside a byte and a has the larger    *)
(* lowest byte                                                              *)
C10_Witness ==
    /\ op = "cmp"
    /\ a # b
    /\ ord = "Less"
    /\ a[0] > b[0]
    /\ fork_height(a, b) % BYTE_SIZE # 0

=============================================================================
